---- MODULE Spec2Model ----
(***************************************************************************)
(* A model of the chat application's real-time layer: the Socket.IO        *)
(* admission middleware, the connection handler (room join, presence       *)
(* broadcast, message and typing relay, disconnect) of server/index.js,    *)
(* the message routes of server/routes/messageRoutes.js, and the client    *)
(* handlers of client/src/App.tsx that feed them.                          *)
(* The client side also covers the socket effect (a chat switch replaces   *)
(* the socket), the typing timers, the displayed message list with its     *)
(* history fetch, and the login, logout and mark-read endpoints.           *)
(* The HTTP side covers the user directory (registration and user          *)
(* creation, the status update), the guard of server/middleware/           *)
(* authMiddleware.js, and the session of one browser (login, refused       *)
(* handshake, reload, logout).                                             *)
(*                                                                         *)
(* Library behaviour the code relies on and the model assumes:             *)
(*  - a Socket.IO connection carries the client's events to the server in  *)
(*    the order they were emitted (outq is a FIFO per connection);         *)
(*  - io.emit reaches every socket connected to the namespace, and         *)
(*    io.to(r).emit every socket that joined room r, at the time of the    *)
(*    call; an emit is appended to the inbox of each socket it reaches;    *)
(*  - on 'connection' the socket is already in the namespace; on           *)
(*    'disconnect' it has already left its rooms and the namespace.        *)
(***************************************************************************)
EXTENDS Integers, Sequences, FiniteSets, TLC

VARIABLES
  env,       \* process.env.JWT_SECRET of the server process
  users,     \* the User collection: ids of the stored users
  persisted, \* the User collection: status and lastSeen of each stored user
  conn,      \* the sockets: handshake, socket.userId, lifecycle
  sockets,   \* the namespace: sockets for which 'connection' fired
  rooms,     \* the adapter: room name -> sockets that joined it
  outq,      \* events a client emitted that the server has not handled yet
  inbox,     \* what each live socket's client has received, in order
  timers,    \* typingTimeoutRef of each client: pending timers per recipient
  posts,     \* POST /api/messages requests in flight
  messages,  \* the Message collection, in insertion order
  failed,    \* POST /api/messages requests that were answered with an error
  emitted,   \* number of events the clients have emitted so far
  inputs,    \* number of keystrokes and sends the user of each client made
  shown,     \* App.tsx messages state of each client, and its history fetch
  names,     \* the User collection: username of each stored user
  http,      \* requests to the auth and user routes, with their answers
  app        \* one browser: localStorage, currentUser and the socket singleton

vars == <<env, users, persisted, conn, sockets, rooms, outq, inbox, timers, posts,
          messages, failed, emitted, inputs, shown, names, http, app>>

----------------------------------------------------------------------------
(* Bounds and the small universes the inputs are drawn from.               *)

MaxInputs == 1
\* Keystrokes and sends where one or two fixed clients act repeatedly.
MaxKeys == 2

UserIds == {"u1", "u2", "u3"}
InitialUsers == {"u1", "u2"}
Conns == {1, 2, 3}
Contents == {"hi"}
Unset == "unset"
EnvSettings == {Unset, "12345678", "s3cret"}
Keys == {"your_jwt_secret_key", "12345678"}

NoToken == [present |-> FALSE, sub |-> "", key |-> "", expired |-> FALSE]
Token(u, k, x) == [present |-> TRUE, sub |-> u, key |-> k, expired |-> x]
Credentials ==
  {NoToken} \cup {Token(u, k, FALSE) : u \in UserIds, k \in Keys}
            \cup {Token("u1", k, TRUE) : k \in Keys}

Undefined == "undefined"
Null == "null"

\* new Date().toISOString() evaluated by the server when it relays.
ServerNow == "new Date()"

----------------------------------------------------------------------------
(* server/index.js: the secret and jwt.verify.                             *)

JWT_SECRET == IF env = Unset THEN "your_jwt_secret_key" ELSE env

\* jwt.verify(token, secret): the signature was made with `secret` and the
\* token has not expired; otherwise it throws.
jwtVerify(token, secret) == token.key = secret /\ ~token.expired

----------------------------------------------------------------------------
(* Socket records.                                                         *)

\* typingTimeoutRef.current: the timers pending for each recipient; the ref
\* of a recipient names the one set last, which is the last to fire.
NoTimers == [u \in UserIds |-> 0]
Pending(t, to) == t[to] > 0
clearTimeout(t, to) == IF Pending(t, to) THEN [t EXCEPT ![to] = @ - 1] ELSE t
setTimeout(t, to) == [t EXCEPT ![to] = @ + 1]
Fired(t, to) == [t EXCEPT ![to] = @ - 1]
Armed(c) == {u \in UserIds : Pending(timers[c], u)}

\* The messages state of a client, without the system entries, and the GET
\* of its history that is in flight: asked, then served with `result`;
\* currentChat as the chat effect saw it last; and how many of the events
\* in the socket's inbox the listeners have handled.
NoFetch == [state |-> "none", with |-> "", result |-> <<>>]
EmptyView == [list |-> <<>>, fetch |-> NoFetch, chat |-> Null, seen |-> 0]

\* A user document's presence fields: after a logout, and of no document.
LoggedOut == [status |-> "offline", lastSeen |-> "Date.now()"]
NoUser == [status |-> "", lastSeen |-> ""]

\* The browser before any login: nothing in localStorage, no current user,
\* socket.ts socket = null.  `issued` numbers the token it stores, and
\* `refused` collects the numbers of the tokens a handshake refused.
NoSession == [token |-> NoToken, issued |-> 0, currentUser |-> Null, socket |-> 0,
              refused |-> {}]

NewSocket == [st |-> "new", cred |-> NoToken, userId |-> Undefined, why |-> ""]
Gone(state, reason) ==
  [st |-> state, cred |-> NoToken, userId |-> Undefined, why |-> reason]

\* The state after the server started with the users `stored` in its
\* database, each under the name of its id and logged out.
Start(stored) ==
  /\ env \in EnvSettings
  /\ users = stored
  /\ persisted = [u \in UserIds |-> IF u \in stored THEN LoggedOut ELSE NoUser]
  /\ conn = [c \in Conns |-> NewSocket]
  /\ sockets = {}
  /\ rooms = [u \in UserIds |-> {}]
  /\ outq = [c \in Conns |-> <<>>]
  /\ inbox = [c \in Conns |-> <<>>]
  /\ timers = [c \in Conns |-> NoTimers]
  /\ posts = {}
  /\ messages = <<>>
  /\ failed = {}
  /\ emitted = 0
  /\ inputs = [c \in Conns |-> 0]
  /\ shown = [c \in Conns |-> EmptyView]
  /\ names = [u \in UserIds |-> IF u \in stored THEN u ELSE ""]
  /\ http = {}
  /\ app = NoSession

Init == Start(InitialUsers)

----------------------------------------------------------------------------
(* Events.  A client event is what socket.emit put on the wire; `seq` and   *)
(* `by` are history fields: the emission's number and the handler that      *)
(* made it ("input", "timeout", "sent").  A server event carries, besides   *)
(* its payload, the room it was sent to (to), the socket whose handler      *)
(* emitted it (src) and the number of the client event it relays (seq).     *)

ClientEvent(name, target, text, typing, origin) ==
  [ev |-> name, to |-> target, message |-> text, isTyping |-> typing,
   seq |-> emitted + 1, by |-> origin]

\* The disconnect handler announcing the status of the connection handler.
StatusEventAlwaysOnline(c, u, s) ==
  [ev |-> "user:status", who |-> u, status |-> "online", message |-> "",
   isTyping |-> FALSE, to |-> "", src |-> c, seq |-> 0, timestamp |-> ""]

StatusEvent(c, u, s) ==
  [ev |-> "user:status", who |-> u, status |-> s, message |-> "",
   isTyping |-> FALSE, to |-> "", src |-> c, seq |-> 0, timestamp |-> ""]

\* emit to the sockets of `dest`: each receives the event after what it has
\* already received.
Deliver(dest, e) ==
  [c \in Conns |-> IF c \in dest THEN Append(inbox[c], e) ELSE inbox[c]]

\* socket.emit(e) in place of io.emit(e): only the handler's own socket.
ioEmitOnlySelf(namespace, e) == Deliver(namespace \cap {e.src}, e)

\* io.emit(e): every socket of the namespace.
ioEmit(namespace, e) == Deliver(namespace, e)

\* io.emit(e) in place of io.to(room).emit(e).
ioToEveryone(room, e) == Deliver(sockets, e)

\* A registry that keeps one socket per user: the last that joined.
ioToLastJoined(room, e) ==
  Deliver(IF room \in DOMAIN rooms
            THEN {c \in rooms[room] : \A d \in rooms[room] : d <= c}
            ELSE {}, e)

\* io.to(room).emit(e): the sockets that joined `room`.
ioTo(room, e) == Deliver(IF room \in DOMAIN rooms THEN rooms[room] ELSE {}, e)

\* A join that puts the socket in every user's room.
socketJoinEvery(c, room) == [r \in DOMAIN rooms |-> rooms[r] \cup {c}]

\* socket.join(room)
socketJoin(c, room) == [rooms EXCEPT ![room] = @ \cup {c}]

\* A disconnect that leaves the socket in its rooms.
leaveNothing(c) == rooms

\* What the library does to the adapter when a socket closes.
leaveAll(c) == [r \in DOMAIN rooms |-> rooms[r] \ {c}]

Alive(c) == conn[c].st \in {"handshake", "pending", "connected"}

\* Sockets are created in the order of their names (the names are arbitrary).
NextFree(c) == conn[c].st = "new" /\ \A d \in Conns : d < c => conn[d].st # "new"

----------------------------------------------------------------------------
(* client/src/services/socket.ts initializeSocket: io(SERVER_URL, {auth}).  *)

IoConnect(c, cred) ==
  /\ NextFree(c)
  /\ conn' = [conn EXCEPT ![c] = [st |-> "handshake", cred |-> cred,
                                  userId |-> Undefined, why |-> ""]]
  /\ UNCHANGED <<env, names, http, app, shown, users, persisted, sockets, rooms, outq, inbox, timers, posts,
                 messages, failed, emitted, inputs>>

\* io.use, lines 54-64 and the catch: the error the middleware passes to
\* next() before any lookup, or "" when the token decodes.
tokenErrorSkipsVerify(token) ==
  IF ~token.present THEN "no token" ELSE ""

tokenError(token) ==
  IF ~token.present THEN "no token"
  ELSE IF ~jwtVerify(token, JWT_SECRET) THEN "verify"
  ELSE ""

\* A middleware that joins the room named by the token before verifying it.
IoUseJoinsFirst(c) ==
  /\ conn[c].st = "handshake"
  /\ LET token == conn[c].cred IN
     IF tokenError(token) # ""
       THEN /\ conn' = [conn EXCEPT ![c] = Gone("rejected", tokenError(token))]
            /\ outq' = [outq EXCEPT ![c] = <<>>]
            /\ timers' = [timers EXCEPT ![c] = NoTimers]
            /\ rooms' = IF token.sub \in DOMAIN rooms
                          THEN socketJoin(c, token.sub) ELSE rooms
       ELSE /\ conn' = [conn EXCEPT ![c] = [st |-> "pending", cred |-> NoToken,
                                            userId |-> token.sub, why |-> ""]]
            /\ UNCHANGED <<outq, timers, rooms>>
  /\ UNCHANGED <<env, names, http, app, shown, users, persisted, sockets, inbox, posts, messages, failed,
                 emitted, inputs>>

(* server/index.js io.use, up to the call of User.findById.                *)
IoUse(c) ==
  /\ conn[c].st = "handshake"
  /\ LET token == conn[c].cred IN
     IF tokenError(token) # ""
       THEN /\ conn' = [conn EXCEPT ![c] = Gone("rejected", tokenError(token))]
            /\ outq' = [outq EXCEPT ![c] = <<>>]
            /\ timers' = [timers EXCEPT ![c] = NoTimers]
       ELSE /\ conn' = [conn EXCEPT ![c] = [st |-> "pending", cred |-> NoToken,
                                            userId |-> token.sub, why |-> ""]]
            /\ UNCHANGED <<outq, timers>>
  /\ UNCHANGED <<env, names, http, app, shown, users, persisted, sockets, rooms, inbox, posts, messages, failed,
                 emitted, inputs>>

\* User.findById(id): the stored user, or null.
findById(id) == IF id \in users THEN id ELSE Null

(* server/index.js io.on('connection'): join the user's room, announce.    *)
OnConnection(c) ==
  /\ sockets' = sockets \cup {c}
  /\ rooms' = socketJoin(c, conn[c].userId)
  /\ inbox' = ioEmit(sockets \cup {c}, StatusEvent(c, conn[c].userId, "online"))

(* server/index.js io.use, the callbacks of User.findById.                 *)
FindByIdResolve(c, outcome) ==
  /\ conn[c].st = "pending"
  /\ IF outcome = "error"
       THEN /\ conn' = [conn EXCEPT ![c] = Gone("rejected", "database error")]
            /\ outq' = [outq EXCEPT ![c] = <<>>]
            /\ timers' = [timers EXCEPT ![c] = NoTimers]
            /\ UNCHANGED <<sockets, rooms, inbox>>
     ELSE IF findById(conn[c].userId) = Null
       THEN /\ conn' = [conn EXCEPT ![c] = Gone("rejected", "user not found")]
            /\ outq' = [outq EXCEPT ![c] = <<>>]
            /\ timers' = [timers EXCEPT ![c] = NoTimers]
            /\ UNCHANGED <<sockets, rooms, inbox>>
     ELSE /\ conn' = [conn EXCEPT ![c].st = "connected"]
          /\ OnConnection(c)
          /\ UNCHANGED <<outq, timers>>
  /\ UNCHANGED <<env, names, http, app, shown, users, persisted, posts, messages, failed, emitted, inputs>>

(* server/index.js socket.on('disconnect').                                *)
OnDisconnect(c) ==
  /\ c \in sockets
  /\ sockets' = sockets \ {c}
  /\ rooms' = leaveAll(c)
  /\ inbox' = [ioEmit(sockets \ {c}, StatusEvent(c, conn[c].userId, "offline"))
                 EXCEPT ![c] = <<>>]
  /\ conn' = [conn EXCEPT ![c] = Gone("closed", "")]
  /\ outq' = [outq EXCEPT ![c] = <<>>]
  /\ timers' = [timers EXCEPT ![c] = NoTimers]
  /\ shown' = [shown EXCEPT ![c] = EmptyView]
  /\ UNCHANGED <<env, names, http, app, users, persisted, posts, messages, failed, emitted, inputs>>

(* authController.js register, from request to response, of a user who    *)
(* registers under the name u and is stored with the id u.                 *)
RegisterUser(u) ==
  /\ u \notin users
  /\ users' = users \cup {u}
  /\ persisted' = [persisted EXCEPT ![u] = [status |-> "online", lastSeen |-> ""]]
  /\ names' = [names EXCEPT ![u] = u]
  /\ UNCHANGED <<env, http, app, shown, conn, sockets, rooms, outq, inbox, timers, posts,
                 messages, failed, emitted, inputs>>

(* authController.js login, with the user's name and password: 200.       *)
Login(u) ==
  /\ u \in users
  /\ persisted' = [persisted EXCEPT ![u].status = "online"]
  /\ UNCHANGED <<env, names, http, app, shown, users, conn, sockets, rooms, outq, inbox, timers, posts,
                 messages, failed, emitted, inputs>>

(* authController.js logout, called by App.tsx handleLogout.               *)
Logout(u) ==
  /\ u \in users
  /\ persisted' = [persisted EXCEPT ![u] = [status |-> "offline",
                                            lastSeen |-> "Date.now()"]]
  /\ UNCHANGED <<env, names, http, app, shown, users, conn, sockets, rooms, outq, inbox, timers, posts,
                 messages, failed, emitted, inputs>>

----------------------------------------------------------------------------
(* The user directory: POST /api/auth/register (authController.js) and     *)
(* POST /api/users (userRoutes.js).  Each handler awaits User.findOne and   *)
(* then newUser.save(); other requests run between the two.                 *)

MaxRequests == 2
RequestsLeft == Cardinality(http) < MaxRequests

\* What the forms send as username and password.
Usernames == {"", "al", "ann", " ann"}
Passwords == {"", "secret"}

\* String.prototype.trim and .length on these inputs.
trim(s) == IF s = " ann" THEN "ann" ELSE s
length(s) ==
  CASE s = "" -> 0 [] s = "al" -> 2 [] s = "ann" -> 3 [] s = " ann" -> 4
    [] s = "secret" -> 6 [] OTHER -> 3

\* The ids the store hands out, in this order.
IdOrder == <<"u1", "u2", "u3">>
FreeIds == {i \in 1..Len(IdOrder) : IdOrder[i] \notin users}
NewId == IdOrder[CHOOSE i \in FreeIds : \A j \in FreeIds : i <= j]

\* User.findOne({username}): a stored user of that name, or null.
findOne(username) ==
  IF \E u \in users : names[u] = username
    THEN CHOOSE u \in users : names[u] = username
    ELSE Null

\* A store that accepts any insert.
noIndex(username) == TRUE

\* The User collection's unique index on username: an insert of a name
\* that is stored already is refused with a duplicate-key error.
uniqueIndex(username) == \A u \in users : names[u] # username

\* A request to one of the two routes, as it arrives.
Request(route, username, password) ==
  [id |-> Cardinality(http) + 1, route |-> route, username |-> username,
   password |-> password, phase |-> "arrived", status |-> 0, made |-> ""]

Answer(r, code, user) == [r EXCEPT !.phase = "done", !.status = code, !.made = user]

DirectoryFrame ==
  UNCHANGED <<env, app, shown, conn, sockets, rooms, outq, inbox, timers, posts,
              messages, failed, emitted, inputs>>

(* A client posts the registration form.                                   *)
PostRegister(username, password) ==
  /\ http' = http \cup {Request("register", username, password)}
  /\ UNCHANGED <<users, names, persisted>>
  /\ DirectoryFrame

(* authController.js register, up to the answer of User.findOne: the       *)
(* validations and the existence check; when they pass, save() is issued.  *)
RegisterCheck(r) ==
  /\ r \in http /\ r.route = "register" /\ r.phase = "arrived"
  /\ http' = (http \ {r}) \cup
       {IF \/ r.username = "" \/ r.password = ""
           \/ length(trim(r.username)) < 3 \/ length(trim(r.password)) < 6
           \/ findOne(trim(r.username)) # Null
          THEN Answer(r, 400, "")
          ELSE [r EXCEPT !.phase = "saving"]}
  /\ UNCHANGED <<users, names, persisted>>
  /\ DirectoryFrame

(* authController.js register, from the store's answer to save(): the      *)
(* token, status 'online' and 201, or the catch and 500.                   *)
RegisterSave(r, ok) ==
  /\ r \in http /\ r.route = "register" /\ r.phase = "saving"
  /\ IF ok /\ uniqueIndex(trim(r.username)) /\ FreeIds # {}
       THEN /\ users' = users \cup {NewId}
            /\ names' = [names EXCEPT ![NewId] = trim(r.username)]
            /\ persisted' = [persisted EXCEPT ![NewId] =
                               [status |-> "online", lastSeen |-> ""]]
            /\ http' = (http \ {r}) \cup {Answer(r, 201, NewId)}
       ELSE /\ http' = (http \ {r}) \cup {Answer(r, 500, "")}
            /\ UNCHANGED <<users, names, persisted>>
  /\ DirectoryFrame

(* A client posts to /api/users.                                           *)
PostUsers(username) ==
  /\ http' = http \cup {Request("users", username, "")}
  /\ UNCHANGED <<users, names, persisted>>
  /\ DirectoryFrame

(* userRoutes.js router.post('/'), up to the answer of User.findOne.       *)
UsersCheck(r) ==
  /\ r \in http /\ r.route = "users" /\ r.phase = "arrived"
  /\ http' = (http \ {r}) \cup
       {IF r.username = "" THEN Answer(r, 400, "")
        ELSE IF findOne(r.username) # Null THEN Answer(r, 200, "")
        ELSE [r EXCEPT !.phase = "saving"]}
  /\ UNCHANGED <<users, names, persisted>>
  /\ DirectoryFrame

(* userRoutes.js router.post('/'), from the store's answer to save(): 201  *)
(* with the new user in the schema's default state, or the catch and 500.  *)
UsersSave(r, ok) ==
  /\ r \in http /\ r.route = "users" /\ r.phase = "saving"
  /\ IF ok /\ uniqueIndex(r.username) /\ FreeIds # {}
       THEN /\ users' = users \cup {NewId}
            /\ names' = [names EXCEPT ![NewId] = r.username]
            /\ persisted' = [persisted EXCEPT ![NewId] = LoggedOut]
            /\ http' = (http \ {r}) \cup {Answer(r, 201, NewId)}
       ELSE /\ http' = (http \ {r}) \cup {Answer(r, 500, "")}
            /\ UNCHANGED <<users, names, persisted>>
  /\ DirectoryFrame

\* What a PATCH /api/users/:id/status carries: the id of the path, which
\* may be no ObjectId at all, and the status of the body, which may be
\* missing.
PathIds == UserIds \cup {"xyz"}
StatusBodies == {Undefined, "", "away", "online", "offline"}

\* Date.now() evaluated by the route.
PatchNow == "Date.now() of the PATCH"

\* An update document that stamps lastSeen whatever the status is.
statusUpdateAlwaysStamps(doc, status) ==
  [doc EXCEPT !.status = status, !.lastSeen = PatchNow]

\* {status, ...(status === 'offline' && {lastSeen: Date.now()})} applied
\* to a user document.
statusUpdate(doc, status) ==
  IF status = "offline"
    THEN [doc EXCEPT !.status = status, !.lastSeen = PatchNow]
    ELSE [doc EXCEPT !.status = status]

\* The answered request; `threw` tells that findByIdAndUpdate threw.
StatusAnswer(id, status, code, threw) ==
  [id |-> Cardinality(http) + 1, route |-> "status", target |-> id, body |-> status,
   phase |-> "done", status |-> code, threw |-> threw]

(* userRoutes.js router.patch('/:id/status').  User.findByIdAndUpdate       *)
(* throws when the store fails and when the id cannot be cast to an        *)
(* ObjectId; it answers null when no user has the id.                      *)
PatchStatus(id, status, ok) ==
  /\ IF status \in {Undefined, ""} \/ status \notin {"online", "offline"}
       THEN /\ http' = http \cup {StatusAnswer(id, status, 400, FALSE)}
            /\ UNCHANGED persisted
     ELSE IF ~ok \/ id \notin UserIds
       THEN /\ http' = http \cup {StatusAnswer(id, status, 500, TRUE)}
            /\ UNCHANGED persisted
     ELSE IF findById(id) = Null
       THEN /\ http' = http \cup {StatusAnswer(id, status, 404, FALSE)}
            /\ UNCHANGED persisted
     ELSE /\ http' = http \cup {StatusAnswer(id, status, 200, FALSE)}
          /\ persisted' = [persisted EXCEPT ![id] = statusUpdate(@, status)]
  /\ UNCHANGED <<users, names>>
  /\ DirectoryFrame

----------------------------------------------------------------------------
(* The client of a socket (client/src/App.tsx).  currentUser._id is the     *)
(* user the client's token was issued to; currentChat is an input of each   *)
(* handler.                                                                 *)

CurrentUser(c) == IF conn[c].st = "handshake" THEN conn[c].cred.sub
                  ELSE conn[c].userId

RECURSIVE Sum(_, _)
Sum(f, S) == IF S = {} THEN 0
             ELSE LET x == CHOOSE y \in S : TRUE IN f[x] + Sum(f, S \ {x})

\* The user types or sends only while fewer than MaxInputs inputs were made.
InputsLeft == Sum(inputs, Conns) < MaxInputs

\* socket.emit on the client: the event joins the connection's queue.
socketEmit(c, e) == [outq EXCEPT ![c] = Append(@, e)]

\* A handleTyping that sets a new timer without clearing the pending one.
HandleInputChangeNoClear(c, to, isTyping) ==
  /\ Alive(c)
  /\ outq' = socketEmit(c, ClientEvent("user:typing", to, "", isTyping, "input"))
  /\ timers' = [timers EXCEPT ![c] = IF isTyping THEN setTimeout(@, to)
                                               ELSE clearTimeout(@, to)]
  /\ emitted' = emitted + 1
  /\ inputs' = [inputs EXCEPT ![c] = @ + 1]
  /\ UNCHANGED <<env, names, http, app, shown, users, persisted, conn, sockets, rooms, inbox, posts, messages, failed>>

(* App.tsx handleTyping(isTyping), called by handleInputChange.            *)
HandleInputChange(c, to, isTyping) ==
  /\ Alive(c)
  /\ outq' = socketEmit(c, ClientEvent("user:typing", to, "", isTyping, "input"))
  /\ timers' = [timers EXCEPT ![c] = IF isTyping THEN setTimeout(clearTimeout(@, to), to)
                                               ELSE clearTimeout(@, to)]
  /\ emitted' = emitted + 1
  /\ inputs' = [inputs EXCEPT ![c] = @ + 1]
  /\ UNCHANGED <<env, names, http, app, shown, users, persisted, conn, sockets, rooms, inbox, posts, messages, failed>>

\* A timer that repeats (setInterval) instead of firing once.
TypingTimeoutRepeats(c, to) ==
  /\ Alive(c)
  /\ timers[c][to] > 0
  /\ Len(outq[c]) < 2
  /\ outq' = socketEmit(c, ClientEvent("user:typing", to, "", FALSE, "timeout"))
  /\ emitted' = emitted + 1
  /\ UNCHANGED <<env, names, http, app, shown, users, persisted, conn, sockets, rooms, inbox, timers, posts, messages,
                 failed, inputs>>

(* App.tsx handleTyping: the 3000 ms timer fires and calls handleTyping(false). *)
TypingTimeout(c, to) ==
  /\ Alive(c)
  /\ timers[c][to] > 0
  /\ outq' = socketEmit(c, ClientEvent("user:typing", to, "", FALSE, "timeout"))
  /\ timers' = [timers EXCEPT ![c] = clearTimeout(Fired(@, to), to)]
  /\ emitted' = emitted + 1
  /\ UNCHANGED <<env, names, http, app, shown, users, persisted, conn, sockets, rooms, inbox, posts, messages, failed,
                 inputs>>

\* authController.js: its own JWT_SECRET, with its own fallback.
SigningSecret == IF env = Unset THEN "12345678" ELSE env

\* authController.js generateToken: a fresh token, 30 days from expiry.
generateToken(userId) == Token(userId, SigningSecret, FALSE)

\* The tokens the clients hold: what register and login returned.
HeldTokens == {generateToken(u) : u \in users}

\* The token in localStorage of the client whose socket is c.
StoredToken(c) == IF conn[c].st = "handshake" THEN conn[c].cred
                  ELSE generateToken(conn[c].userId)

(* App.tsx useEffect([currentUser, currentChat]) after setCurrentChat: the  *)
(* client calls disconnectSocket() and initializeSocket().  The server      *)
(* runs the 'disconnect' handler of the old socket c; the new socket c2     *)
(* starts its handshake with the same token.  The component's timers, its   *)
(* pending requests and its user stay with the client.                      *)
SwitchChat(c, c2) ==
  /\ Alive(c)
  /\ NextFree(c2)
  /\ conn' = [conn EXCEPT ![c] = Gone("closed", ""),
                          ![c2] = [st |-> "handshake", cred |-> StoredToken(c),
                                   userId |-> Undefined, why |-> ""]]
  /\ IF c \in sockets
       THEN /\ sockets' = sockets \ {c}
            /\ rooms' = leaveAll(c)
            /\ inbox' = [ioEmit(sockets \ {c}, StatusEvent(c, conn[c].userId, "offline"))
                           EXCEPT ![c] = <<>>]
       ELSE UNCHANGED <<sockets, rooms, inbox>>
  /\ outq' = [outq EXCEPT ![c] = <<>>]
  /\ timers' = [timers EXCEPT ![c] = NoTimers, ![c2] = timers[c]]
  /\ inputs' = [inputs EXCEPT ![c] = 0, ![c2] = inputs[c]]
  /\ posts' = {IF p.client = c THEN [p EXCEPT !.client = c2] ELSE p : p \in posts}
  /\ shown' = [shown EXCEPT ![c] = EmptyView, ![c2] = [shown[c] EXCEPT !.seen = 0]]
  /\ UNCHANGED <<env, names, http, app, users, persisted, messages, failed, emitted>>

----------------------------------------------------------------------------
(* server/middleware/authMiddleware.js: the guard of the HTTP routes.      *)

\* authMiddleware.js: its JWT_SECRET is a literal.
ProtectSecret == "12345678"

\* The Authorization header of a request: absent, or a scheme and a token
\* (a header without a second word carries no token).
NoHeader == [scheme |-> "", token |-> NoToken]
Bearer(token) == [scheme |-> "Bearer", token |-> token]

\* A guard that trusts the token's subject without verifying the token.
protectSkipsVerify(header, storeOk) ==
  IF header.scheme # "Bearer" \/ ~header.token.present THEN Null
  ELSE IF ~storeOk THEN Null
  ELSE findById(header.token.sub)

\* exports.protect: the user it puts in req.user before it calls next(),
\* or Null when it answers 401.  storeOk tells whether User.findById
\* answered; when it throws, the catch answers 401.
protect(header, storeOk) ==
  IF header.scheme # "Bearer" \/ ~header.token.present THEN Null
  ELSE IF ~jwtVerify(header.token, ProtectSecret) THEN Null
  ELSE IF ~storeOk THEN Null
  ELSE findById(header.token.sub)

\* The Authorization headers a request may carry.
Headers ==
  {NoHeader} \cup {[scheme |-> s, token |-> t] : s \in {"Bearer", "Basic"},
                                                 t \in Credentials}

(* A request to a guarded route passes through exports.protect: either     *)
(* req.user is set and next() is called, or the answer is 401.             *)
Guarded(header, storeOk) ==
  /\ http' = http \cup
       {[id |-> Cardinality(http) + 1, route |-> "guarded", header |-> header,
         lookup |-> storeOk, phase |-> "done",
         status |-> IF protect(header, storeOk) = Null THEN 401 ELSE 0,
         next |-> protect(header, storeOk) # Null,
         user |-> IF protect(header, storeOk) = Null THEN Undefined
                  ELSE protect(header, storeOk)]}
  /\ UNCHANGED <<users, names, persisted>>
  /\ DirectoryFrame

\* api.ts, the request interceptor: the stored token, when there is one.
authorization(token) == IF token.present THEN Bearer(token) ELSE NoHeader

----------------------------------------------------------------------------
(* One browser (client/src/App.tsx with services/socket.ts and api.ts):    *)
(* the token in localStorage, currentUser, and the module's socket.        *)

\* disconnectSocket() on the socket `old` (0: there is none) and, when
\* new # 0, initializeSocket(), which opens the socket `new` with `cred`.
\* The server runs the 'disconnect' handler of a socket that was connected.
Resocket(old, new, cred) ==
  /\ conn' = [c \in Conns |->
               IF c = new THEN [st |-> "handshake", cred |-> cred,
                                userId |-> Undefined, why |-> ""]
               ELSE IF c = old /\ Alive(c) THEN Gone("closed", "")
               ELSE conn[c]]
  /\ sockets' = sockets \ {old}
  /\ rooms' = leaveAll(old)
  /\ inbox' = IF old \in sockets
                THEN [ioEmit(sockets \ {old},
                             StatusEvent(old, conn[old].userId, "offline"))
                        EXCEPT ![old] = <<>>]
                ELSE inbox
  /\ outq' = [c \in Conns |-> IF c = old THEN <<>> ELSE outq[c]]
  /\ timers' = [c \in Conns |-> IF c = old THEN NoTimers ELSE timers[c]]
  /\ shown' = [c \in Conns |-> IF c = old THEN EmptyView ELSE shown[c]]

\* A submit that leaves the module's socket as it is: initializeSocket()
\* returns the existing one.
HandleAuthSubmitKeepsSocket(u, c) ==
  /\ app.currentUser = Null
  /\ u \in users
  /\ NextFree(c)
  /\ persisted' = [persisted EXCEPT ![u].status = "online"]
  /\ app' = [app EXCEPT !.token = generateToken(u), !.issued = @ + 1,
                        !.currentUser = u,
                        !.socket = IF @ = 0 THEN c ELSE @]
  /\ IF app.socket = 0 THEN Resocket(0, c, generateToken(u))
     ELSE UNCHANGED <<conn, sockets, rooms, inbox, outq, timers, shown>>
  /\ UNCHANGED <<env, names, http, users, posts, messages, failed, emitted, inputs>>

(* App.tsx handleAuthSubmit with a good name and password: authApi.login   *)
(* (the server sets the status, api.ts stores the token it returns) and    *)
(* setCurrentUser, after which the socket effect runs: disconnectSocket()  *)
(* and initializeSocket() with the stored token.                           *)
HandleAuthSubmit(u, c) ==
  /\ app.currentUser = Null
  /\ u \in users
  /\ NextFree(c)
  /\ persisted' = [persisted EXCEPT ![u].status = "online"]
  /\ app' = [app EXCEPT !.token = generateToken(u), !.issued = @ + 1,
                        !.currentUser = u, !.socket = c]
  /\ Resocket(app.socket, c, generateToken(u))
  /\ UNCHANGED <<env, names, http, users, posts, messages, failed, emitted, inputs>>

\* A handler that gives up the session but leaves localStorage alone.
ConnectErrorKeepsToken(c) ==
  /\ app.socket = c
  /\ app.currentUser # Null
  /\ conn[c].st = "rejected"
  /\ app' = [app EXCEPT !.currentUser = Null, !.refused = @ \cup {app.issued}]
  /\ UNCHANGED <<env, names, http, users, persisted, conn, sockets, rooms, outq, inbox,
                 timers, posts, messages, failed, emitted, inputs, shown>>

(* App.tsx, the 'connect_error' listener of the socket effect: the server  *)
(* refused the handshake with 'Authentication error'.  The cleanup of the  *)
(* effect then removes the listeners; the module keeps the socket.         *)
ConnectError(c) ==
  /\ app.socket = c
  /\ app.currentUser # Null
  /\ conn[c].st = "rejected"
  /\ app' = [app EXCEPT !.token = NoToken, !.currentUser = Null,
                        !.refused = @ \cup {app.issued}]
  /\ UNCHANGED <<env, names, http, users, persisted, conn, sockets, rooms, outq, inbox,
                 timers, posts, messages, failed, emitted, inputs, shown>>

(* The page is loaded again: the old page's socket closes, the module's    *)
(* socket is null again, and App.tsx's mount effect restores currentUser   *)
(* from localStorage, after which the socket effect connects (c # 0).      *)
Reload(c) ==
  /\ IF app.token.present
       THEN /\ c \in Conns /\ NextFree(c)
            /\ app' = [app EXCEPT !.currentUser = app.token.sub, !.socket = c]
       ELSE /\ c = 0
            /\ app' = [app EXCEPT !.currentUser = Null, !.socket = 0]
  /\ Resocket(app.socket, c, app.token)
  /\ UNCHANGED <<env, names, http, users, persisted, posts, messages, failed, emitted,
                 inputs>>

\* A logout whose teardown sits in a finally block: it runs whether the
\* request succeeded or not.
HandleLogoutAlwaysTearsDown(ok) ==
  /\ app.currentUser # Null
  /\ LET user == IF ok THEN protect(authorization(app.token), TRUE) ELSE Null IN
       /\ persisted' = IF user # Null
                         THEN [persisted EXCEPT ![user] = LoggedOut] ELSE persisted
       /\ app' = [app EXCEPT !.token = NoToken, !.currentUser = Null, !.socket = 0]
       /\ Resocket(app.socket, 0, NoToken)
  /\ UNCHANGED <<env, names, http, users, posts, messages, failed, emitted, inputs>>

(* App.tsx handleLogout.  authApi.logout posts to /auth/logout with the     *)
(* stored token and removes the token and the user from localStorage       *)
(* whether the request succeeded or not; when it failed it throws, and     *)
(* handleLogout's catch skips disconnectSocket() and setCurrentUser(null). *)
(* The request succeeds when it reaches the server (ok) and the guard      *)
(* sets req.user, which the controller reads.                              *)
HandleLogout(ok) ==
  /\ app.currentUser # Null
  /\ LET user == IF ok THEN protect(authorization(app.token), TRUE) ELSE Null IN
       IF user # Null
         THEN /\ persisted' = [persisted EXCEPT ![user] = LoggedOut]
              /\ app' = [app EXCEPT !.token = NoToken, !.currentUser = Null,
                                    !.socket = 0]
              /\ Resocket(app.socket, 0, NoToken)
         ELSE /\ app' = [app EXCEPT !.token = NoToken]
              /\ UNCHANGED <<persisted, conn, sockets, rooms, inbox, outq, timers, shown>>
  /\ UNCHANGED <<env, names, http, users, posts, messages, failed, emitted, inputs>>

\* The entries of the messages state: the temporary one that
\* handleSendMessage shows ('temp-' + Date.now(), one per send) and the
\* persisted record that a response carries.
TempMessage(n, content, sender, recipient) ==
  [temp |-> TRUE, seq |-> n, content |-> content, sender |-> sender,
   recipient |-> recipient, live |-> FALSE]
Persisted(m) ==
  [temp |-> FALSE, seq |-> m.seq, content |-> m.content, sender |-> m.sender,
   recipient |-> m.recipient, live |-> FALSE]

\* prev.map(msg => msg._id === tempMessage._id ? typedMessage : msg)
ReplaceTemp(list, m) ==
  [i \in 1..Len(list) |-> IF list[i].temp /\ list[i].seq = m.seq
                            THEN Persisted(m) ELSE list[i]]

\* prev.filter(msg => !msg._id.startsWith('temp-'))
DropTemps(list) == SelectSeq(list, LAMBDA x : ~x.temp)

(* App.tsx handleSendMessage up to the await: socket emit, then the POST.  *)
HandleSendMessage(c, to, content) ==
  /\ Alive(c)
  /\ outq' = socketEmit(c, ClientEvent("message:send", to, content, FALSE, "input"))
  /\ posts' = posts \cup {[client |-> c, sender |-> CurrentUser(c),
                           recipient |-> to, content |-> content,
                           seq |-> emitted + 1]}
  /\ emitted' = emitted + 1
  /\ inputs' = [inputs EXCEPT ![c] = @ + 1]
  /\ shown' = [shown EXCEPT ![c].list = Append(@,
                 TempMessage(emitted + 1, content, CurrentUser(c), to))]
  /\ UNCHANGED <<env, names, http, app, users, persisted, conn, sockets, rooms, inbox, timers, messages, failed>>

(* App.tsx handleSendMessage after the await succeeded: the temporary     *)
(* entry is replaced by the record, then handleTyping(false).              *)
AfterSent(p, m) ==
  IF Alive(p.client)
    THEN /\ shown' = [shown EXCEPT ![p.client].list = ReplaceTemp(@, m)]
         /\ outq' = socketEmit(p.client, ClientEvent("user:typing", p.recipient,
                                                     "", FALSE, "sent"))
         /\ timers' = [timers EXCEPT ![p.client] = clearTimeout(@, p.recipient)]
         /\ emitted' = emitted + 1
    ELSE UNCHANGED <<shown, outq, timers, emitted>>

(* App.tsx handleSendMessage, the catch: the request failed.               *)
SendFailed(p) ==
  IF Alive(p.client)
    THEN shown' = [shown EXCEPT ![p.client].list = DropTemps(@)]
    ELSE UNCHANGED shown

\* The Message document the route builds; read defaults to false and
\* createdAt is the insertion time.
NewMessage(p) ==
  [id |-> Len(messages) + 1, sender |-> p.sender, recipient |-> p.recipient,
   content |-> p.content, read |-> FALSE, createdAt |-> Len(messages) + 1,
   seq |-> p.seq]

(* messageRoutes.js router.post('/'): validation, save, 201; the client    *)
(* processes the response.                                                 *)
PostMessage(p) ==
  /\ p \in posts
  /\ posts' = posts \ {p}
  /\ IF p.sender = "" \/ p.recipient = "" \/ p.content = ""
       THEN /\ failed' = failed \cup {p}
            /\ SendFailed(p)
            /\ UNCHANGED <<messages, outq, timers, emitted>>
       ELSE /\ messages' = Append(messages, NewMessage(p))
            /\ AfterSent(p, NewMessage(p))
            /\ UNCHANGED failed
  /\ UNCHANGED <<env, names, http, app, users, persisted, conn, sockets, rooms, inbox, inputs>>

(* messageRoutes.js router.post('/'): save throws, 500; the client's catch. *)
PostMessageFails(p) ==
  /\ p \in posts
  /\ posts' = posts \ {p}
  /\ failed' = failed \cup {p}
  /\ SendFailed(p)
  /\ UNCHANGED <<env, names, http, app, users, persisted, conn, sockets, rooms, outq, inbox, timers,
                 messages, emitted, inputs>>

\* A lookup that matches the requested direction only.
getMessagesOneWay(userId, recipientId) ==
  SelectSeq(messages, LAMBDA m : m.sender = userId /\ m.recipient = recipientId)

\* Message.find({$or: [{sender: userId, recipient: recipientId},
\*                     {sender: recipientId, recipient: userId}]}): the
\* matching documents, which the store hands over in no promised order.
find(userId, recipientId) ==
  {messages[i] : i \in {j \in 1..Len(messages) :
     \/ (messages[j].sender = userId /\ messages[j].recipient = recipientId)
     \/ (messages[j].sender = recipientId /\ messages[j].recipient = userId)}}

\* A sort that puts the newest document first.
RECURSIVE sortNewestFirst(_)
sortNewestFirst(docs) ==
  IF docs = {} THEN <<>>
  ELSE LET m == CHOOSE x \in docs : \A y \in docs : x.createdAt >= y.createdAt
       IN  <<m>> \o sortNewestFirst(docs \ {m})

\* .sort({createdAt: 1}): ascending by creation time.
RECURSIVE sortByCreatedAt(_)
sortByCreatedAt(docs) ==
  IF docs = {} THEN <<>>
  ELSE LET m == CHOOSE x \in docs : \A y \in docs : x.createdAt <= y.createdAt
       IN  <<m>> \o sortByCreatedAt(docs \ {m})

\* messageRoutes.js router.get('/:userId/:recipientId'): both directions,
\* sorted by createdAt ascending.
getMessages(userId, recipientId) == sortByCreatedAt(find(userId, recipientId))

\* An update that matches the messages of the pair in both directions.
markReadBothWays(msgs, userId, senderId) ==
  [i \in 1..Len(msgs) |->
     IF /\ {msgs[i].recipient, msgs[i].sender} = {userId, senderId}
        /\ ~msgs[i].read
       THEN [msgs[i] EXCEPT !.read = TRUE] ELSE msgs[i]]

\* Message.updateMany({recipient: userId, sender: senderId, read: false},
\*                    {read: true})
markRead(msgs, userId, senderId) ==
  [i \in 1..Len(msgs) |->
     IF /\ msgs[i].recipient = userId /\ msgs[i].sender = senderId
        /\ ~msgs[i].read
       THEN [msgs[i] EXCEPT !.read = TRUE] ELSE msgs[i]]

\* result.nModified: how many documents the update would change.
nModified(msgs, userId, senderId) ==
  Cardinality({i \in 1..Len(msgs) : markRead(msgs, userId, senderId)[i] # msgs[i]})

(* messageRoutes.js router.patch('/read/:userId/:senderId'), which          *)
(* messageApi.markAsRead calls.                                             *)
PatchRead(userId, senderId) ==
  /\ messages' = markRead(messages, userId, senderId)
  /\ UNCHANGED <<env, names, http, app, users, persisted, conn, sockets, rooms, outq, inbox, timers,
                 posts, failed, emitted, inputs, shown>>

(* App.tsx useEffect([currentUser, currentChat, users]): a chat is open and *)
(* the chat or the user list changed.  The effect calls fetchMessages(),    *)
(* whose GET is then in flight, and replaces the list by a system entry,    *)
(* which the model leaves out; the PATCH it issues is served by PatchRead.  *)
(* One GET per client is followed at a time.                                *)
ChatEffect(c, to) ==
  /\ Alive(c)
  /\ to \in users \ {CurrentUser(c)}
  /\ shown[c].fetch = NoFetch
  /\ shown' = [shown EXCEPT ![c] = [list |-> <<>>,
                                    fetch |-> [state |-> "asked", with |-> to,
                                               result |-> <<>>],
                                    chat |-> to, seen |-> @.seen]]
  /\ UNCHANGED <<env, names, http, app, users, persisted, conn, sockets, rooms, outq, inbox, timers,
                 posts, messages, failed, emitted, inputs>>

\* The response body of the GET: the records, in the server's order.
Records(q) == [i \in 1..Len(q) |-> Persisted(q[i])]

(* messageRoutes.js router.get('/:userId/:recipientId') serves the GET of   *)
(* client c, or fails with 500.                                             *)
GetMessagesServed(c, ok) ==
  /\ Alive(c)
  /\ shown[c].fetch.state = "asked"
  /\ shown' = [shown EXCEPT ![c].fetch =
                 IF ok THEN [state |-> "served", with |-> @.with,
                             result |-> Records(getMessages(CurrentUser(c), @.with))]
                       ELSE [@ EXCEPT !.state = "failed"]]
  /\ UNCHANGED <<env, names, http, app, users, persisted, conn, sockets, rooms, outq, inbox, timers,
                 posts, messages, failed, emitted, inputs>>

(* App.tsx fetchMessages after the await: setMessages(typedMessages), or   *)
(* the catch, which leaves the list as it is.                              *)
FetchProcessed(c) ==
  /\ Alive(c)
  /\ shown[c].fetch.state \in {"served", "failed"}
  /\ shown' = [shown EXCEPT ![c] =
                 [list |-> IF @.fetch.state = "served" THEN @.fetch.result ELSE @.list,
                  fetch |-> NoFetch, chat |-> @.chat, seen |-> @.seen]]
  /\ UNCHANGED <<env, names, http, app, users, persisted, conn, sockets, rooms, outq, inbox, timers,
                 posts, messages, failed, emitted, inputs>>

\* A listener that shows a message only when it comes from the open chat.
receivedFromOpenChat(view, e, me) ==
  IF e.ev = "message:receive" /\ e.who = view.chat
    THEN Append(view.list,
                [temp |-> FALSE, seq |-> e.seq, content |-> e.message,
                 sender |-> e.who, recipient |-> me, live |-> TRUE])
    ELSE view.list

\* App.tsx, the 'message:receive' listener: setMessages(prev => [...prev,
\* newMessage]) with sender data.from and recipient currentUser._id; the
\* entry's _id is Date.now().  The other events add no text entry.
received(view, e, me) ==
  IF e.ev = "message:receive"
    THEN Append(view.list,
                [temp |-> FALSE, seq |-> e.seq, content |-> e.message,
                 sender |-> e.who, recipient |-> me, live |-> TRUE])
    ELSE view.list

(* App.tsx, the listeners of the socket effect: the client handles the     *)
(* next event that its socket received.  The PATCH that the listener       *)
(* issues for a message of the open chat is served by PatchRead.           *)
OnReceive(c) ==
  /\ c \in sockets
  /\ shown[c].seen < Len(inbox[c])
  /\ shown' = [shown EXCEPT
                 ![c].list = received(shown[c], inbox[c][shown[c].seen + 1],
                                      CurrentUser(c)),
                 ![c].seen = @ + 1]
  /\ UNCHANGED <<env, names, http, app, users, persisted, conn, sockets, rooms, outq, inbox, timers,
                 posts, messages, failed, emitted, inputs>>

----------------------------------------------------------------------------
(* server/index.js: the relay handlers registered by the connection handler. *)

\* A relay that names as sender the user the payload addresses.
RelayEventFromPayload(c, e, name) ==
  [ev |-> name, who |-> e.to, status |-> "", message |-> e.message,
   isTyping |-> e.isTyping, to |-> e.to, src |-> c, seq |-> e.seq,
   timestamp |-> IF name = "message:receive" THEN ServerNow ELSE ""]

RelayEvent(c, e, name) ==
  [ev |-> name, who |-> conn[c].userId, status |-> "", message |-> e.message,
   isTyping |-> e.isTyping, to |-> e.to, src |-> c, seq |-> e.seq,
   timestamp |-> IF name = "message:receive" THEN ServerNow ELSE ""]

\* A handler that stores the message itself and relays it once it is saved.
OnMessageSendAfterSave(c) ==
  /\ c \in sockets
  /\ outq[c] # <<>>
  /\ Head(outq[c]).ev = "message:send"
  /\ \E i \in 1..Len(messages) : messages[i].seq = Head(outq[c]).seq
  /\ inbox' = ioTo(Head(outq[c]).to, RelayEvent(c, Head(outq[c]), "message:receive"))
  /\ outq' = [outq EXCEPT ![c] = Tail(@)]
  /\ UNCHANGED <<env, names, http, app, shown, users, persisted, conn, sockets, rooms, timers, posts, messages,
                 failed, emitted, inputs>>

(* socket.on('message:send') *)
OnMessageSend(c) ==
  /\ c \in sockets
  /\ outq[c] # <<>>
  /\ Head(outq[c]).ev = "message:send"
  /\ inbox' = ioTo(Head(outq[c]).to, RelayEvent(c, Head(outq[c]), "message:receive"))
  /\ outq' = [outq EXCEPT ![c] = Tail(@)]
  /\ UNCHANGED <<env, names, http, app, shown, users, persisted, conn, sockets, rooms, timers, posts, messages,
                 failed, emitted, inputs>>

\* A typing handler that does not wait for the events emitted before it.
OnUserTypingOvertakes(c) ==
  /\ c \in sockets
  /\ \E i \in 1..Len(outq[c]) :
       /\ outq[c][i].ev = "user:typing"
       /\ inbox' = ioTo(outq[c][i].to, RelayEvent(c, outq[c][i], "user:typing"))
       /\ outq' = [outq EXCEPT ![c] = SubSeq(@, 1, i - 1) \o SubSeq(@, i + 1, Len(@))]
  /\ UNCHANGED <<env, names, http, app, shown, users, persisted, conn, sockets, rooms, timers, posts, messages,
                 failed, emitted, inputs>>

(* socket.on('user:typing') *)
OnUserTyping(c) ==
  /\ c \in sockets
  /\ outq[c] # <<>>
  /\ Head(outq[c]).ev = "user:typing"
  /\ inbox' = ioTo(Head(outq[c]).to, RelayEvent(c, Head(outq[c]), "user:typing"))
  /\ outq' = [outq EXCEPT ![c] = Tail(@)]
  /\ UNCHANGED <<env, names, http, app, shown, users, persisted, conn, sockets, rooms, timers, posts, messages,
                 failed, emitted, inputs>>


----------------------------------------------------------------------------
(* Specifications.                                                          *)

(* The real-time layer: clients holding accepted tokens connect, send      *)
(* messages and disconnect.  A client chats with another user: its own     *)
(* record is filtered out of the list it picks currentChat from.           *)
Next ==
  \/ \E c \in Conns, cred \in HeldTokens : IoConnect(c, cred)
  \/ \E c \in Conns : IoUse(c)
  \/ \E c \in Conns : FindByIdResolve(c, "ok")
  \/ \E c \in Conns : OnDisconnect(c)
  \/ \E c \in sockets : \E to \in users \ {CurrentUser(c)}, m \in Contents :
        InputsLeft /\ HandleSendMessage(c, to, m)
  \/ \E p \in posts : PostMessage(p)
  \/ \E p \in posts : PostMessageFails(p)
  \/ \E c \in Conns : OnMessageSend(c)
  \/ \E c \in Conns : OnUserTyping(c)

\* The server runs with JWT_SECRET set in its environment, to the value
\* that authController.js falls back to and authMiddleware.js has built in.
InitConfigured == Init /\ env = "12345678"

Spec == InitConfigured /\ [][Next]_vars

(* The typing notifier: the same clients type instead of sending.          *)
NextTyping ==
  \/ \E c \in Conns, cred \in HeldTokens : IoConnect(c, cred)
  \/ \E c \in Conns : IoUse(c)
  \/ \E c \in Conns : FindByIdResolve(c, "ok")
  \/ \E c \in Conns : OnDisconnect(c)
  \/ \E c \in sockets : \E to \in users \ {CurrentUser(c)}, t \in BOOLEAN :
        InputsLeft /\ HandleInputChange(c, to, t)
  \/ \E c \in sockets : \E to \in users : TypingTimeout(c, to)
  \/ \E c \in Conns : OnUserTyping(c)

SpecTyping == InitConfigured /\ [][NextTyping]_vars

(* The admission gate: any credential, any server configuration, lookups   *)
(* that fail, users registered while a handshake is pending.               *)
NextAdmission ==
  \/ \E c \in Conns, cred \in Credentials : IoConnect(c, cred)
  \/ \E c \in Conns : IoUse(c)
  \/ \E c \in Conns, o \in {"ok", "error"} : FindByIdResolve(c, o)
  \/ \E c \in Conns : OnDisconnect(c)
  \/ \E u \in UserIds : RegisterUser(u)

SpecAdmission == Init /\ [][NextAdmission]_vars

(* The persisted presence: users log in, connect, disconnect and log out.  *)
NextPersist ==
  \/ \E u \in users : Login(u)
  \/ \E u \in users : Logout(u)
  \/ \E c \in Conns, cred \in HeldTokens : IoConnect(c, cred)
  \/ \E c \in Conns : IoUse(c)
  \/ \E c \in Conns : FindByIdResolve(c, "ok")
  \/ \E c \in Conns : OnDisconnect(c)

SpecPersist == InitConfigured /\ [][NextPersist]_vars

(* The typing notifier of one client, u1's, that types repeatedly and       *)
(* switches the open chat, from the moment io() returned; its sockets are   *)
(* the first one and those that switching the chat creates.                 *)
KeysLeft == Sum(inputs, Conns) < MaxKeys

NextAutoClear ==
  \/ IoConnect(1, generateToken("u1"))
  \/ \E c \in Conns : IoUse(c)
  \/ \E c \in Conns : FindByIdResolve(c, "ok")
  \/ \E c \in Conns : OnDisconnect(c)
  \/ \E u \in UserIds : RegisterUser(u)
  \/ \E c \in Conns : \E to \in users \ {CurrentUser(c)}, t \in BOOLEAN :
        KeysLeft /\ HandleInputChange(c, to, t)
  \/ \E c \in Conns : \E to \in UserIds : TypingTimeout(c, to)
  \/ \E c, c2 \in Conns : SwitchChat(c, c2)
  \/ \E c \in Conns : OnUserTyping(c)

\* A timer that was set and not cleared fires: the browser runs it.
TimersFire == \A c \in Conns, to \in UserIds : WF_vars(TypingTimeout(c, to))

SpecAutoClear == InitConfigured /\ [][NextAutoClear]_vars /\ TimersFire

(* The sessions: logged-in clients connect, select and switch the open     *)
(* chat, and leave.                                                        *)
NextSession ==
  \/ \E c \in Conns, cred \in HeldTokens : IoConnect(c, cred)
  \/ \E c \in Conns : IoUse(c)
  \/ \E c \in Conns : FindByIdResolve(c, "ok")
  \/ \E c, c2 \in Conns : SwitchChat(c, c2)
  \/ \E c \in Conns : OnDisconnect(c)

SpecSession == InitConfigured /\ [][NextSession]_vars

(* The message list of one client, u1's: it sends, its requests are         *)
(* answered, and the effect of the open chat fetches the history.          *)
NextReconcile ==
  \/ IoConnect(1, generateToken("u1"))
  \/ \E c \in Conns : IoUse(c)
  \/ \E c \in Conns : FindByIdResolve(c, "ok")
  \/ \E c \in Conns : OnDisconnect(c)
  \/ \E c \in Conns : \E to \in users \ {CurrentUser(c)}, m \in Contents :
        KeysLeft /\ HandleSendMessage(c, to, m)
  \/ \E p \in posts : PostMessage(p)
  \/ \E p \in posts : PostMessageFails(p)
  \/ \E c \in Conns : \E to \in users : ChatEffect(c, to)
  \/ \E c \in Conns, ok \in BOOLEAN : GetMessagesServed(c, ok)
  \/ \E c \in Conns : FetchProcessed(c)
  \/ \E c \in Conns : OnMessageSend(c)
  \/ \E c \in Conns : OnUserTyping(c)

SpecReconcile == InitConfigured /\ [][NextReconcile]_vars

(* The read flags: the clients of u1 and u2 write to each other, and       *)
(* chats are marked as read.                                               *)
NextRead ==
  \/ IoConnect(1, generateToken("u1"))
  \/ IoConnect(2, generateToken("u2"))
  \/ \E c \in Conns : IoUse(c)
  \/ \E c \in Conns : FindByIdResolve(c, "ok")
  \/ \E c \in sockets : \E to \in users \ {CurrentUser(c)}, m \in Contents :
        KeysLeft /\ HandleSendMessage(c, to, m)
  \/ \E p \in posts : PostMessage(p)
  \/ \E c \in Conns : OnMessageSend(c)
  \/ \E c \in Conns : OnUserTyping(c)
  \/ \E u, v \in users : PatchRead(u, v)

SpecRead == InitConfigured /\ [][NextRead]_vars

(* The history: a third user registers, the clients of u1 and u2 write to  *)
(* each other and to the third user, and chats are marked as read.         *)
NextHistory ==
  \/ RegisterUser("u3")
  \/ IoConnect(1, generateToken("u1"))
  \/ IoConnect(2, generateToken("u2"))
  \/ \E c \in Conns : IoUse(c)
  \/ \E c \in Conns : FindByIdResolve(c, "ok")
  \/ \E c \in sockets : \E to \in users \ {CurrentUser(c)}, m \in Contents :
        KeysLeft /\ HandleSendMessage(c, to, m)
  \/ \E p \in posts : PostMessage(p)
  \/ \E c \in Conns : OnMessageSend(c)
  \/ \E u, v \in users : PatchRead(u, v)

SpecHistory == InitConfigured /\ [][NextHistory]_vars

(* The directory: registrations and user creations, two in flight.         *)
NextDirectory ==
  \/ \E n \in Usernames, p \in Passwords : RequestsLeft /\ PostRegister(n, p)
  \/ \E r \in http : RegisterCheck(r)
  \/ \E r \in http, ok \in BOOLEAN : RegisterSave(r, ok)
  \/ \E n \in Usernames : RequestsLeft /\ PostUsers(n)
  \/ \E r \in http : UsersCheck(r)
  \/ \E r \in http, ok \in BOOLEAN : UsersSave(r, ok)

\* The server starts with an empty User collection.
InitEmptyStore == Start({}) /\ env = "12345678"

SpecDirectory == InitEmptyStore /\ [][NextDirectory]_vars

(* The persisted presence: users register, log in and out, and status      *)
(* updates of every kind arrive.                                           *)
NextPresence ==
  \/ RegisterUser("u3")
  \/ \E u \in UserIds : Login(u)
  \/ \E u \in UserIds : Logout(u)
  \/ \E id \in PathIds, s \in StatusBodies, ok \in BOOLEAN :
        RequestsLeft /\ PatchStatus(id, s, ok)

SpecPresence == InitConfigured /\ [][NextPresence]_vars

(* The guard of the HTTP routes: requests with every kind of header, in    *)
(* every configuration, while a user registers.                            *)
NextGuard ==
  \/ RegisterUser("u3")
  \/ \E h \in Headers, ok \in BOOLEAN : RequestsLeft /\ Guarded(h, ok)

SpecGuard == Init /\ [][NextGuard]_vars


(* One browser: its user logs in, the handshake of its socket is admitted  *)
(* or refused, the page is loaded again, the user logs out.                *)
NextApp ==
  \/ \E u \in users, c \in Conns : HandleAuthSubmit(u, c)
  \/ \E c \in Conns : IoUse(c)
  \/ \E c \in Conns, outcome \in {"ok", "error"} : FindByIdResolve(c, outcome)
  \/ \E c \in Conns : ConnectError(c)
  \/ \E c \in Conns \cup {0} : Reload(c)
  \/ \E ok \in BOOLEAN : HandleLogout(ok)

SpecApp == Init /\ [][NextApp]_vars

\* Three users are stored.
InitThreeUsers == Start(UserIds) /\ env = "12345678"

(* What a client shows: the client of u1 opens chats and handles what its  *)
(* socket receives, while the client of u2 or of u3 writes to u1.          *)
NextDisplay ==
  \/ IoConnect(1, generateToken("u1"))
  \/ \E u \in {"u2", "u3"} : IoConnect(2, generateToken(u))
  \/ \E c \in Conns : IoUse(c)
  \/ \E c \in Conns : FindByIdResolve(c, "ok")
  \/ \E c \in sockets \ {1}, m \in Contents : KeysLeft /\ HandleSendMessage(c, "u1", m)
  \/ \E p \in posts : PostMessage(p)
  \/ \E c \in Conns : OnMessageSend(c)
  \/ \E c \in Conns : OnUserTyping(c)
  \/ \E to \in users : ChatEffect(1, to)
  \/ \E ok \in BOOLEAN : GetMessagesServed(1, ok)
  \/ FetchProcessed(1)
  \/ OnReceive(1)

SpecDisplay == InitThreeUsers /\ [][NextDisplay]_vars




(* The gate under load: clients with good and bad credentials connect, and *)
(* send from the moment io() returned, admitted or not.                    *)
(* The storage requests of the sends stay in flight: their answers take   *)
(* no part in admission.                                                   *)
\* No token, the tokens of the stored users, a token signed with another
\* key and a token of a user that is not stored.
GateCredentials ==
  {NoToken} \cup HeldTokens
            \cup {Token("u1", "your_jwt_secret_key", FALSE), generateToken("u3")}

NextGate ==
  \/ \E c \in Conns, cred \in GateCredentials : IoConnect(c, cred)
  \/ \E c \in Conns : IoUse(c)
  \/ \E c \in Conns, o \in {"ok", "error"} : FindByIdResolve(c, o)
  \/ \E c \in Conns : OnDisconnect(c)
  \/ \E c \in Conns : \E to \in users \ {CurrentUser(c)}, m \in Contents :
        InputsLeft /\ HandleSendMessage(c, to, m)
  \/ \E c \in Conns : OnMessageSend(c)

SpecGate == InitConfigured /\ [][NextGate]_vars

----------------------------------------------------------------------------
(* Socket admission.                                                        *)

Decided(c) == conn[c].st \in {"handshake", "pending"} /\ conn'[c].st # conn[c].st

\* C1: a handshake is admitted (next() without error, the connection handler
\* runs and the socket enters the namespace) exactly when its token is
\* present, verifies under JWT_SECRET and User.findById returns the decoded
\* user at the time of the lookup; a missing token, a failed verification, a
\* user that is not found and a lookup error all end in next(error).
AdmissionIffValid ==
  [][\A c \in Conns :
       /\ (c \in sockets') <=> (conn'[c].st = "connected")
       /\ Decided(c) =>
            LET token == conn[c].cred
                valid == token.present /\ token.key = JWT_SECRET /\ ~token.expired
            IN /\ conn[c].st = "handshake" =>
                    /\ valid <=> conn'[c].st = "pending"
                    /\ ~valid <=> (conn'[c].st = "rejected" /\ conn'[c].why # "")
                    /\ valid => conn'[c].userId = token.sub
                    /\ ~token.present => conn'[c].why = "no token"
               /\ conn[c].st = "pending" =>
                    LET lookupFailed == conn'[c].why = "database error"
                        found == conn[c].userId \in users /\ ~lookupFailed
                    IN /\ found <=> conn'[c].st = "connected"
                       /\ ~found <=> (conn'[c].st = "rejected" /\ conn'[c].why # "")
                       /\ conn'[c].st = "connected" => conn'[c].userId = conn[c].userId
  ]_vars

\* One socket was admitted for a user registered after start-up while another
\* was refused because its user was not found and a third for its token.
C1Witness ==
  \E a, b, c \in Conns :
    /\ conn[a].st = "connected" /\ conn[a].userId = "u3" /\ a \in sockets
    /\ conn[b].st = "rejected" /\ conn[b].why = "user not found"
    /\ conn[c].st = "rejected" /\ conn[c].why = "verify"

----------------------------------------------------------------------------
(* Presence.                                                                *)

IsRelay(e) == e.ev \in {"message:receive", "user:typing"}
IsStatus(e) == e.ev = "user:status"
Gained(c) == Len(inbox'[c]) > Len(inbox[c])
Last(q) == q[Len(q)]
Front(q) == SubSeq(q, 1, Len(q) - 1)

\* C2: a 'user:status' event about a user is emitted only by a connection or
\* a disconnection that changes whether the user's group is empty: one
\* 'online' at the first of N connections, one 'offline' at the last close,
\* nothing in between.
PresenceIdempotence ==
  [][\A u \in UserIds :
       (\E c \in Conns : Gained(c) /\ IsStatus(Last(inbox'[c]))
                          /\ Last(inbox'[c]).who = u)
         => ((rooms[u] = {}) # (rooms'[u] = {}))
  ]_vars

\* The 'user:status' events a connection received, as <<userId, status>>.
RECURSIVE StatusSeen(_)
StatusSeen(q) ==
  IF q = <<>> THEN <<>>
  ELSE IF IsStatus(Head(q)) THEN <<<<Head(q).who, Head(q).status>>>> \o StatusSeen(Tail(q))
  ELSE StatusSeen(Tail(q))

\* Scenario A: a and b, of different users, are the only sockets that ever
\* connected, and both are live.
ScenarioA(a, b) ==
  /\ a # b
  /\ sockets = {a, b}
  /\ conn[a].userId # conn[b].userId
  /\ \A c \in Conns \ {a, b} : conn[c].st = "new"

\* C6, as claimed: after U1 and then U2 connected, each of the two
\* connections has received two 'user:status' events, (U1, online) and
\* (U2, online).
ScenarioABothReceiveTwo ==
  \A a, b \in Conns :
    ScenarioA(a, b) =>
      /\ Len(StatusSeen(inbox[a])) = 2
      /\ Len(StatusSeen(inbox[b])) = 2

\* C6, amended: the connection that connected first has received (U1, online)
\* and then (U2, online); the one that connected second has received
\* (U2, online) alone.
ScenarioAFirstTwoSecondOne ==
  \A a, b \in Conns :
    ScenarioA(a, b) =>
      LET ua == conn[a].userId
          ub == conn[b].userId
      IN \/ /\ StatusSeen(inbox[a]) = <<<<ua, "online">>, <<ub, "online">>>>
            /\ StatusSeen(inbox[b]) = <<<<ub, "online">>>>
         \/ /\ StatusSeen(inbox[b]) = <<<<ub, "online">>, <<ua, "online">>>>
            /\ StatusSeen(inbox[a]) = <<<<ua, "online">>>>

\* Socket 1 of u1 connected, then socket 2 of u2.
C6Witness ==
  /\ ScenarioA(1, 2)
  /\ conn[1].userId = "u1" /\ conn[2].userId = "u2"
  /\ Len(inbox[1]) = 2 /\ Len(inbox[2]) = 1

\* C7: a connection or disconnection that changes whether user u's group is
\* empty appends exactly one 'user:status' event, carrying u and the new
\* status, to the inbox of every connection live at that moment, whoever its
\* user is.
TransitionBroadcast ==
  [][\A u \in UserIds :
       ((rooms[u] = {}) # (rooms'[u] = {})) =>
         \A d \in sockets' :
           /\ Gained(d)
           /\ Front(inbox'[d]) = inbox[d]
           /\ IsStatus(Last(inbox'[d]))
           /\ Last(inbox'[d]).who = u
           /\ Last(inbox'[d]).status = IF rooms'[u] = {} THEN "offline" ELSE "online"
  ]_vars

\* A connection saw another user come online and go offline.
C7Witness ==
  \E d \in sockets : \E i \in 1..Len(inbox[d]) :
    /\ i > 1
    /\ IsStatus(inbox[d][i]) /\ inbox[d][i].status = "offline"
    /\ inbox[d][i].who # conn[d].userId
    /\ inbox[d][i - 1].who = inbox[d][i].who /\ inbox[d][i - 1].status = "online"
    /\ rooms[inbox[d][i].who] = {}

----------------------------------------------------------------------------
(* Relay.                                                                   *)

\* C3: a relayed 'message:receive' or 'user:typing' event whose target is
\* user X is observed only by connections authenticated as X.
Isolation ==
  \A c \in Conns : \A i \in 1..Len(inbox[c]) :
    IsRelay(inbox[c][i]) =>
      /\ conn[c].st = "connected"
      /\ inbox[c][i].to = conn[c].userId

\* A connection of the recipient holds a relayed message while a second
\* device of the sender, connected before the recipient, holds none.
C3Witness ==
  \E s, r, d \in sockets :
    /\ s # d /\ conn[s].userId = conn[d].userId /\ conn[r].userId # conn[s].userId
    /\ \E i \in 1..Len(inbox[r]) :
         inbox[r][i].ev = "message:receive" /\ inbox[r][i].src = s
    /\ \E i \in 1..Len(inbox[d]) :
         IsStatus(inbox[d][i]) /\ inbox[d][i].src = r
    /\ \A i \in 1..Len(inbox[d]) : ~IsRelay(inbox[d][i])

\* What the recipients of `e`, relayed for socket c, must receive.
Relays(x, c, e) ==
  /\ x.who = conn[c].userId
  /\ x.message = e.message
  /\ x.isTyping = e.isTyping

\* The connections of user u that are live.
ConnectionsOf(u) == {d \in Conns : conn[d].st = "connected" /\ conn[d].userId = u}

\* The relay of the 'message:send' at the head of c's queue delivers one
\* 'message:receive' to every live connection of the recipient.
DeliversToRecipient(c) ==
  /\ OnMessageSend(c)
  /\ \A d \in ConnectionsOf(Head(outq[c]).to) :
       /\ Gained(d)
       /\ Front(inbox'[d]) = inbox[d]
       /\ Last(inbox'[d]).ev = "message:receive"
       /\ Relays(Last(inbox'[d]), c, Head(outq[c]))

\* C4: whatever the state of the message's storage request (pending, failed
\* or saved), the server relays a 'message:send' it received to every live
\* connection of the recipient: the relay neither waits for storage nor
\* depends on its outcome.
RelayIndependentOfStorage ==
  \A c \in sockets :
    (outq[c] # <<>> /\ Head(outq[c]).ev = "message:send") =>
      ENABLED DeliversToRecipient(c)

\* The storage of a message failed and a connection of its recipient holds it.
C4Witness ==
  \E p \in failed : \E d \in sockets : \E i \in 1..Len(inbox[d]) :
    /\ conn[d].userId = p.recipient
    /\ inbox[d][i].ev = "message:receive"
    /\ inbox[d][i].seq = p.seq
    /\ inbox[d][i].message = p.content

\* C5: the relayed events a connection received from one sender connection
\* are in the order in which the sender emitted them, none twice.
OrderPreserved ==
  \A c \in Conns : \A i, j \in 1..Len(inbox[c]) :
    (i < j /\ IsRelay(inbox[c][i]) /\ IsRelay(inbox[c][j])
           /\ inbox[c][i].src = inbox[c][j].src)
      => inbox[c][i].seq < inbox[c][j].seq

\* A connection received a message and then a typing event of one sender.
C5Witness ==
  \E c \in sockets : \E i, j \in 1..Len(inbox[c]) :
    /\ i < j
    /\ inbox[c][i].ev = "message:receive" /\ inbox[c][j].ev = "user:typing"
    /\ inbox[c][i].src = inbox[c][j].src

\* C8: the relay of a 'message:send' {to: U2, message: m} emitted by a
\* connection of U1 appends exactly one 'message:receive', with from = U1 and
\* message = m, to each live connection of U2, and no connection ever holds
\* the same message twice.
ExactlyOneReceive ==
  [][/\ \A c \in sockets :
          (c \in sockets' /\ outq[c] # <<>> /\ outq'[c] = Tail(outq[c])
             /\ Head(outq[c]).ev = "message:send") =>
            \A d \in ConnectionsOf(Head(outq[c]).to) :
              /\ Len(inbox'[d]) = Len(inbox[d]) + 1
              /\ Front(inbox'[d]) = inbox[d]
              /\ Last(inbox'[d]).ev = "message:receive"
              /\ Last(inbox'[d]).who = conn[c].userId
              /\ Last(inbox'[d]).message = Head(outq[c]).message
     /\ \A d \in Conns : \A i, j \in 1..Len(inbox'[d]) :
          (inbox'[d][i].ev = "message:receive" /\ inbox'[d][j].ev = "message:receive"
             /\ inbox'[d][i].seq = inbox'[d][j].seq) => i = j
  ]_vars

\* Two connections of u2 hold the message "hi" that u1 sent.
C8Witness ==
  \E d1, d2 \in sockets :
    /\ d1 # d2 /\ conn[d1].userId = "u2" /\ conn[d2].userId = "u2"
    /\ \A d \in {d1, d2} :
         Cardinality({i \in 1..Len(inbox[d]) :
                        /\ inbox[d][i].ev = "message:receive"
                        /\ inbox[d][i].who = "u1"
                        /\ inbox[d][i].message = "hi"}) = 1

Contains(q, m) == \E i \in 1..Len(q) : q[i] = m

\* Every stored message is returned by the lookup of its two users.
Retrievable ==
  \A i \in 1..Len(messages) :
    /\ Contains(getMessages(messages[i].sender, messages[i].recipient), messages[i])
    /\ Contains(getMessages(messages[i].recipient, messages[i].sender), messages[i])

\* C9: the relay of a message whose recipient has no live connection changes
\* no inbox (nothing is delivered, the sender receives no error); a socket
\* that connects receives its own 'online' event and nothing that was
\* relayed before; a message whose POST succeeded is stored, stays stored and
\* is returned by the history lookup of its two users, in either order.
DeliveryMissIsSilent ==
  [][/\ \A c \in sockets :
          (c \in sockets' /\ outq[c] # <<>> /\ outq'[c] = Tail(outq[c])
             /\ Head(outq[c]).ev = "message:send"
             /\ ConnectionsOf(Head(outq[c]).to) = {}) => inbox' = inbox
     /\ \A c \in sockets' \ sockets :
          /\ Len(inbox'[c]) = 1
          /\ IsStatus(inbox'[c][1]) /\ inbox'[c][1].who = conn'[c].userId
     /\ \A p \in posts \ (posts' \cup failed') :
          \E i \in 1..Len(messages') :
            /\ messages'[i].sender = p.sender
            /\ messages'[i].recipient = p.recipient
            /\ messages'[i].content = p.content
            /\ messages'[i].seq = p.seq
     /\ \A i \in 1..Len(messages) :
          /\ i <= Len(messages')
          /\ messages'[i] = messages[i]
     /\ Retrievable'
  ]_vars

\* u1's message to u2 is stored and was relayed while u2 had no connection;
\* u2 connected afterwards and has received its own 'online' event only.
C9Witness ==
  \E s, d \in sockets :
    /\ conn[s].userId = "u1" /\ conn[d].userId = "u2"
    /\ \A c \in Conns \ {s, d} : conn[c].st = "new"
    /\ inputs[s] = 1 /\ outq[s] = <<>>
    /\ Len(inbox[d]) = 1
    /\ \A i \in 1..Len(inbox[s]) : IsStatus(inbox[s][i])
    /\ Len(getMessages("u1", "u2")) = 1
    /\ getMessages("u2", "u1")[1].content = "hi"

----------------------------------------------------------------------------
(* Typing.                                                                  *)

\* The typing states that connection r observed from connection s, in order.
TypingFrom(r, s) ==
  LET Sel(e) == e.ev = "user:typing" /\ e.src = s
      q == SelectSeq(inbox[r], Sel)
  IN  [i \in 1..Len(q) |-> q[i].isTyping]

\* The typing events still in s's queue, by their origin and state.
TypingQueued(s) ==
  LET Sel(e) == e.ev = "user:typing"
      q == SelectSeq(outq[s], Sel)
  IN  [i \in 1..Len(q) |-> <<q[i].by, q[i].isTyping>>]

\* C10: when a connection s has made one input and a connection r of the
\* other user observed isTyping = true from it, r observed from s either
\* <<true>> alone, and then the false is still owed by s's 3000 ms timer
\* (armed, and able to fire) or is queued as the timer's event, or
\* <<true, false>>, and then s owes nothing more: true, then the timer's
\* false, in that order and no other typing state of s.
TypingTrueThenFalse ==
  \A s, r \in sockets :
    (inputs[s] = 1 /\ TypingFrom(r, s) # <<>> /\ TypingFrom(r, s)[1]) =>
      \/ /\ TypingFrom(r, s) = <<TRUE>>
         /\ \/ /\ Armed(s) = {conn[r].userId}
               /\ TypingQueued(s) = <<>>
               /\ ENABLED TypingTimeout(s, conn[r].userId)
            \/ /\ Armed(s) = {}
               /\ TypingQueued(s) = << <<"timeout", FALSE>> >>
      \/ /\ TypingFrom(r, s) = <<TRUE, FALSE>>
         /\ Armed(s) = {}
         /\ TypingQueued(s) = <<>>

\* u2's connection observed true and then false from u1's connection, which
\* made one input.
C10Witness ==
  \E s, r \in sockets :
    /\ conn[s].userId = "u1" /\ conn[r].userId = "u2"
    /\ inputs[s] = 1
    /\ TypingFrom(r, s) = <<TRUE, FALSE>>

----------------------------------------------------------------------------
(* Rejected attempts.                                                       *)

\* Socket c takes part in the shared state: it is in the namespace or in a
\* room, or an event that its handlers emitted was delivered.
Touches(c) ==
  \/ c \in sockets
  \/ \E u \in UserIds : c \in rooms[u]
  \/ \E d \in Conns : \E i \in 1..Len(inbox[d]) : inbox[d][i].src = c

\* C11: the gate decides an attempt once, before anything else: a socket
\* enters the namespace only in the step that admits it, a socket is
\* rejected only while the gate holds it, the step that rejects it changes
\* neither the namespace, nor a room, nor an inbox, and a rejected socket
\* never takes part in the shared state: it joined no room, no 'user:status'
\* names it as source, and nothing it emitted was or will be relayed.
RejectedHasNoEffect ==
  [][\A c \in Conns :
       /\ (c \in sockets' \ sockets) =>
            (conn[c].st = "pending" /\ conn'[c].st = "connected")
       /\ (conn'[c].st = "rejected" /\ conn[c].st # "rejected") =>
            /\ conn[c].st \in {"handshake", "pending"}
            /\ sockets' = sockets /\ rooms' = rooms /\ inbox' = inbox
       /\ conn[c].st = "rejected" =>
            /\ conn'[c] = conn[c]
            /\ ~Touches(c) /\ ~Touches(c)'
            /\ outq[c] = <<>> /\ outq'[c] = <<>>
  ]_vars

\* A socket that sent to a user with a live connection was rejected, and
\* that connection received no relayed event.
C11Witness ==
  \E c \in Conns, d \in sockets :
    /\ conn[c].st = "rejected" /\ conn[c].why \in {"verify", "user not found"}
    /\ \E p \in posts : p.client = c /\ p.recipient = conn[d].userId
    /\ \A i \in 1..Len(inbox[d]) : IsStatus(inbox[d][i])

----------------------------------------------------------------------------
(* Announced presence.                                                      *)

\* The status of user u that connection d received last, "" when none.
RECURSIVE LastStatus(_, _)
LastStatus(q, u) ==
  IF q = <<>> THEN ""
  ELSE IF IsStatus(Last(q)) /\ Last(q).who = u THEN Last(q).status
  ELSE LastStatus(Front(q), u)

\* C12: the status of a user that a live connection received last is
\* 'online' exactly when the user's group is non-empty.
LastStatusMatchesGroup ==
  \A d \in sockets : \A u \in UserIds :
    LastStatus(inbox[d], u) # "" =>
      ((LastStatus(inbox[d], u) = "online") <=> (rooms[u] # {}))

----------------------------------------------------------------------------
(* The sender of a relayed event.                                           *)

\* Connection c's handler relays the event at the head of c's queue.
RelayStep(c) ==
  /\ c \in sockets /\ c \in sockets'
  /\ outq[c] # <<>> /\ outq'[c] = Tail(outq[c])

\* C13: every event a relay delivers names as sender the userId that the
\* gate stored on the relaying socket, whatever the payload says, carries
\* the payload's message and isTyping unchanged, and, when it is a
\* 'message:receive', a timestamp that the server assigned.
ServerDerivedSender ==
  [][\A c \in Conns : RelayStep(c) =>
       \A d \in Conns : Gained(d) =>
         LET x == Last(inbox'[d])
             e == Head(outq[c])
         IN /\ x.ev = IF e.ev = "message:send" THEN "message:receive" ELSE "user:typing"
            /\ x.who = conn[c].userId
            /\ x.who \in users
            /\ x.message = e.message
            /\ x.isTyping = e.isTyping
            /\ (x.ev = "message:receive") => (x.timestamp = ServerNow)
  ]_vars

\* A connection of u2 holds a message and a typing event, both from u1.
C13Witness ==
  \E d \in sockets : \E i, j \in 1..Len(inbox[d]) :
    /\ conn[d].userId = "u2"
    /\ inbox[d][i].ev = "message:receive" /\ inbox[d][i].who = "u1"
    /\ inbox[d][i].message = "hi" /\ inbox[d][i].timestamp = ServerNow
    /\ inbox[d][j].ev = "user:typing" /\ inbox[d][j].who = "u1"

----------------------------------------------------------------------------
(* Fan-out.                                                                 *)

\* C14: the relay of an event addressed to user X appends it to the inbox of
\* every connection of X that is live when the server relays it and changes
\* no other inbox; a socket that connects receives nothing that was relayed
\* before, and a closed socket receives nothing.
FanOut ==
  [][/\ \A c \in Conns : RelayStep(c) =>
          \A d \in Conns :
            IF d \in ConnectionsOf(Head(outq[c]).to)
              THEN /\ Len(inbox'[d]) = Len(inbox[d]) + 1
                   /\ Front(inbox'[d]) = inbox[d]
                   /\ IsRelay(Last(inbox'[d]))
                   /\ Last(inbox'[d]).seq = Head(outq[c]).seq
              ELSE inbox'[d] = inbox[d]
     /\ \A d \in sockets' \ sockets :
          \A i \in 1..Len(inbox'[d]) : ~IsRelay(inbox'[d][i])
     /\ \A d \in Conns : conn[d].st = "closed" => inbox'[d] = <<>>
  ]_vars

\* Of two live connections of u2, the one that was connected when u1's
\* message was relayed holds it, the one that connected afterwards does not,
\* and the connection that sent it has closed since.
C14Witness ==
  \E d1, d2 \in sockets :
    /\ d1 # d2 /\ conn[d1].userId = "u2" /\ conn[d2].userId = "u2"
    /\ \E i \in 1..Len(inbox[d1]) :
         inbox[d1][i].ev = "message:receive" /\ inbox[d1][i].who = "u1"
    /\ \A i \in 1..Len(inbox[d2]) : IsStatus(inbox[d2][i])
    /\ \E c \in Conns : conn[c].st = "closed"

----------------------------------------------------------------------------
(* Persisted presence.                                                      *)

\* C15: the step in which a user's last connection closes leaves the user's
\* document with status 'offline' and lastSeen stamped, so that a user
\* without a live connection is not left persisted as 'online'.
OfflineTransitionPersisted ==
  [][\A u \in users :
       (rooms[u] # {} /\ rooms'[u] = {}) =>
         /\ persisted'[u].status = "offline"
         /\ persisted'[u].lastSeen # ""
  ]_vars

----------------------------------------------------------------------------
(* Typing auto-clear.                                                       *)

\* In this step the client of socket c emits 'user:typing' {to, isTyping: b}.
EmitsTyping(c, to, b) ==
  /\ Len(outq'[c]) = Len(outq[c]) + 1
  /\ Front(outq'[c]) = outq[c]
  /\ Last(outq'[c]).ev = "user:typing"
  /\ Last(outq'[c]).to = to
  /\ Last(outq'[c]).isTyping = b

\* The client's socket c is gone, or the last event the client emitted on
\* it is isTyping = false to `to`, with no timer left for `to`.
Cleared(c, to) ==
  \/ conn[c].st \in {"closed", "rejected"}
  \/ /\ outq[c] # <<>>
     /\ Last(outq[c]).ev = "user:typing"
     /\ Last(outq[c]).to = to
     /\ ~Last(outq[c]).isTyping
     /\ ~Pending(timers[c], to)

\* C16: an emission of isTyping = true to R leaves exactly one timer pending
\* for R, however many keystrokes came before; a pending timer for R goes
\* away only with an emission of isTyping = false to R, or with the socket
\* (whose successor, after a chat switch, inherits it); and while the
\* client's socket lives a pending timer for R leads to the emission of
\* isTyping = false to R.
TypingAutoClear ==
  /\ [][\A c \in Conns, to \in UserIds :
          /\ timers'[c][to] <= 1
          /\ EmitsTyping(c, to, TRUE) => timers'[c][to] = 1
          /\ (Pending(timers[c], to) /\ ~Pending(timers'[c], to)) =>
               \/ EmitsTyping(c, to, FALSE)
               \/ conn'[c].st = "closed" /\ conn[c].st # "closed"
          /\ (conn'[c].st = "closed" /\ conn[c].st # "closed" /\ c \notin sockets'
                /\ \E c2 \in Conns : conn[c2].st = "new" /\ conn'[c2].st = "handshake") =>
               \E c2 \in Conns : conn[c2].st = "new" /\ timers'[c2] = timers[c]
     ]_vars
  /\ \A c \in Conns, to \in UserIds : Pending(timers[c], to) ~> Cleared(c, to)

\* The client typed twice to u2 and switched the chat while the timer was
\* pending; the timer fired on the new socket, whose last emission is
\* isTyping = false to u2.
C16Witness ==
  \E c \in Conns :
    /\ c # 1 /\ conn[1].st = "closed" /\ Alive(c)
    /\ inputs[c] = 2
    /\ outq[c] # <<>>
    /\ Last(outq[c]).by = "timeout" /\ Last(outq[c]).to = "u2"
    /\ ~Last(outq[c]).isTyping
    /\ Armed(c) = {}

----------------------------------------------------------------------------
(* One connection, one user.                                                *)

\* C17: from admission to disconnect the userId stored on a socket does not
\* change; a socket in the namespace is in the room of that userId and in
\* no other room, a socket outside the namespace is in no room; and every
\* 'user:status' that a socket's handlers emitted, the 'online' of its
\* connection and the 'offline' of its disconnect, names that one userId.
BoundToOneUser ==
  [][\A c \in Conns :
       /\ (conn[c].st \in {"pending", "connected"} /\ conn'[c].st \in {"pending", "connected"})
            => conn'[c].userId = conn[c].userId
       /\ IF c \in sockets
            THEN /\ conn[c].st = "connected"
                 /\ \A u \in UserIds : c \in rooms[u] <=> u = conn[c].userId
            ELSE \A u \in UserIds : c \notin rooms[u]
       /\ \A d, e \in Conns : \A i \in 1..Len(inbox'[d]), j \in 1..Len(inbox'[e]) :
            (IsStatus(inbox'[d][i]) /\ IsStatus(inbox'[e][j])
               /\ inbox'[d][i].src = c /\ inbox'[e][j].src = c)
              => /\ inbox'[d][i].who = inbox'[e][j].who
                 /\ c \in sockets => inbox'[d][i].who = conn[c].userId
  ]_vars

\* A live connection holds the 'online' and the 'offline' that one closed
\* socket's handlers emitted, and a message that the socket relayed between.
C17Witness ==
  \E d \in sockets, c \in Conns : \E i, j, k \in 1..Len(inbox[d]) :
    /\ conn[c].st = "closed" /\ i < k /\ k < j
    /\ IsStatus(inbox[d][i]) /\ inbox[d][i].src = c /\ inbox[d][i].status = "online"
    /\ IsStatus(inbox[d][j]) /\ inbox[d][j].src = c /\ inbox[d][j].status = "offline"
    /\ inbox[d][k].ev = "message:receive" /\ inbox[d][k].src = c
    /\ inbox[d][k].who = inbox[d][j].who

----------------------------------------------------------------------------
(* The client's socket.                                                     *)

\* C18: a client never replaces its socket within a session: a step in
\* which a socket is created closes no socket, takes none out of the
\* namespace and delivers no presence event; selecting or switching the
\* open chat is no exception.
SocketKeptAcrossChats ==
  [][(\E c2 \in Conns : conn[c2].st = "new" /\ conn'[c2].st = "handshake") =>
       /\ \A c \in Conns : conn'[c].st = "closed" => conn[c].st = "closed"
       /\ sockets' = sockets
       /\ inbox' = inbox
  ]_vars

----------------------------------------------------------------------------
(* The sender's list.                                                       *)

\* How many entries of the list are the record / the temporary entry of
\* the message with number n.
Shows(list, n, t) ==
  Cardinality({i \in 1..Len(list) : list[i].seq = n /\ list[i].temp = t})

\* C19: when the response of a successful POST has been processed, the
\* sender's list holds the persisted record of that message exactly once
\* and no temporary entry for it.
ReplacedOnEcho ==
  [][\A p \in posts :
       (p \notin posts' /\ Len(messages') = Len(messages) + 1 /\ Alive(p.client)) =>
         /\ Shows(shown'[p.client].list, p.seq, FALSE) = 1
         /\ Shows(shown'[p.client].list, p.seq, TRUE) = 0
  ]_vars

----------------------------------------------------------------------------
(* Read flags.                                                              *)

\* The stored messages that this step changed.
Touched == {i \in 1..Len(messages) : i > Len(messages') \/ messages'[i] # messages[i]}

\* C20: no step deletes a stored message or changes anything of it but its
\* read flag, which only goes from false to true; the messages whose flag a
\* step sets all have one sender and one recipient, and they are all the
\* unread messages of that sender to that recipient, so that the same call
\* made again would update none; messages of other pairs and of the reverse
\* direction are untouched.
MarkReadFrame ==
  [][/\ Len(messages') >= Len(messages)
     /\ \A i \in Touched :
          /\ messages'[i] = [messages[i] EXCEPT !.read = TRUE]
          /\ ~messages[i].read
     /\ \A i, j \in Touched :
          /\ messages[i].sender = messages[j].sender
          /\ messages[i].recipient = messages[j].recipient
     /\ \A i \in Touched :
          /\ nModified(messages', messages[i].recipient, messages[i].sender) = 0
          /\ \A k \in 1..Len(messages) :
               (messages[k].sender = messages[i].sender
                  /\ messages[k].recipient = messages[i].recipient) => messages'[k].read
  ]_vars

\* u1's message to u2 is read and u2's message to u1 is not.
C20Witness ==
  \E i, j \in 1..Len(messages) :
    /\ messages[i].sender = "u1" /\ messages[i].recipient = "u2" /\ messages[i].read
    /\ messages[j].sender = "u2" /\ messages[j].recipient = "u1" /\ ~messages[j].read

(* ---------------------------------------------------------------------- *)
\* The stored messages exchanged by a and b, in either direction.
Between(a, b) ==
  {i \in 1..Len(messages) :
     {messages[i].sender, messages[i].recipient} = {a, b}
     /\ messages[i].sender # messages[i].recipient}

\* C21: the lookup for (a, b) returns exactly the stored messages whose
\* sender and recipient are a and b in either direction, each once, in
\* ascending order of creation time; the lookup for (b, a) returns the same
\* sequence; no message that involves a third user is returned.
HistoryLookup ==
  \A a, b \in UserIds : a # b =>
    LET r == getMessages(a, b) IN
      /\ Len(r) = Cardinality(Between(a, b))
      /\ \A i \in Between(a, b) : \E k \in 1..Len(r) : r[k] = messages[i]
      /\ \A k \in 1..Len(r) : {r[k].sender, r[k].recipient} = {a, b}
      /\ \A k, l \in 1..Len(r) : k < l => r[k].createdAt < r[l].createdAt
      /\ r = getMessages(b, a)

\* Two messages are stored, one of them with the third user; the lookup
\* for u1 and u2 returns the other one alone.
C21Witness ==
  /\ Len(messages) = 2
  /\ \E i \in 1..2 : messages[i].recipient = "u3"
  /\ Len(getMessages("u2", "u1")) = 1
  /\ getMessages("u2", "u1")[1].recipient # "u3"
  /\ getMessages("u2", "u1")[1].sender # "u3"

----------------------------------------------------------------------------
\* No two stored users have the same username.
NoDuplicateNames == \A u, v \in users : u # v => names[u] # names[v]

\* A registration is answered in this step, for a name that is stored.
AnswersExisting(r) ==
  /\ r \in http /\ r.route = "register" /\ r.phase # "done"
  /\ \E a \in http' : a.id = r.id /\ a.phase = "done"
  /\ \E u \in users : names[u] = trim(r.username)

\* C22: no two stored users ever have the same username, whatever the
\* order of the steps of concurrent registrations and user creations, and
\* a registration for a username that is stored is answered with 400 and
\* creates no user.
UsernameUniqueness ==
  /\ []NoDuplicateNames
  /\ [][\A r \in http : AnswersExisting(r) =>
          /\ users' = users
          /\ \E a \in http' : a.id = r.id /\ a.status = 400]_vars

\* Two registrations of one name passed the existence check before either
\* was saved; one created the user and the other was answered with 500.
C22Race ==
  \E r, q \in http :
    /\ r.route = "register" /\ q.route = "register"
    /\ trim(r.username) = trim(q.username)
    /\ r.status = 201 /\ q.status = 500

----------------------------------------------------------------------------
\* Every stored user's persisted presence is 'online' or 'offline'.
PresenceIsOnlineOrOffline ==
  \A u \in users : persisted[u].status \in {"online", "offline"}

\* The status update answered in this step.
Patched == {a \in http' \ http : a.route = "status"}

----------------------------------------------------------------------------
\* The sockets whose handshake the browser starts in this step.
Attempted == {c \in Conns : conn[c].st = "new" /\ conn'[c].st = "handshake"}

----------------------------------------------------------------------------
\* C25: whatever JWT_SECRET is set to, or when it is not set, the token
\* that login or register issued to a stored user, not expired, is accepted
\* by the admission middleware of the sockets and by the guard of the HTTP
\* routes, which sets req.user to that user.
IssuedTokenAccepted ==
  app.token.present =>
    /\ tokenError(app.token) = ""
    /\ protect(authorization(app.token), TRUE) = app.token.sub

\* The same, for the admission middleware alone and for the guard alone.
IssuedTokenAdmitted == app.token.present => tokenError(app.token) = ""
IssuedTokenPassesGuard ==
  app.token.present => protect(authorization(app.token), TRUE) = app.token.sub

----------------------------------------------------------------------------
\* C26: when the response to a failed POST is processed, the temporary
\* entry of that message is removed from the sender's list and the
\* temporary entry of every other message of that client whose POST is
\* still in flight stays as it is; and when the response to a successful
\* POST is processed while the message's temporary entry is in the list,
\* the list then holds the persisted record of that message once.
FailureRemovesOnlyItsOwnEntry ==
  [][\A p \in posts : (p \notin posts' /\ Alive(p.client)) =>
       LET before == shown[p.client].list
           after == shown'[p.client].list
       IN  IF p \in failed'
             THEN /\ Shows(after, p.seq, TRUE) = 0
                  /\ \A q \in posts' : q.client = p.client =>
                       Shows(after, q.seq, TRUE) = Shows(before, q.seq, TRUE)
             ELSE Shows(before, p.seq, TRUE) = 1 =>
                    /\ Shows(after, p.seq, FALSE) = 1
                    /\ Shows(after, p.seq, TRUE) = 0
  ]_vars

\* The same for the failing response alone, and for the successful one.
FailureRemovesItsEntry ==
  [][\A p \in posts : (p \notin posts' /\ Alive(p.client) /\ p \in failed') =>
       Shows(shown'[p.client].list, p.seq, TRUE) = 0]_vars
SuccessReplacesShownEntry ==
  [][\A p \in posts :
       (p \notin posts' /\ Alive(p.client) /\ p \notin failed'
          /\ Shows(shown[p.client].list, p.seq, TRUE) = 1) =>
         /\ Shows(shown'[p.client].list, p.seq, FALSE) = 1
         /\ Shows(shown'[p.client].list, p.seq, TRUE) = 0]_vars

----------------------------------------------------------------------------
\* The socket c is not live after this step.
StaysClosed(c) == conn'[c].st \notin {"handshake", "pending", "connected"}

\* C27: when handleLogout has finished, whether the logout request
\* succeeded or failed, the module's socket is null and disconnected,
\* currentUser is null and the token is removed; and in no reachable state
\* is the token removed while the UI is logged in with a live socket.
LogoutTearsDown ==
  /\ [](~(/\ ~app.token.present /\ app.currentUser # Null
          /\ app.socket # 0 /\ Alive(app.socket)))
  /\ [][(app.currentUser # Null /\ app.token.present /\ ~app'.token.present
         /\ app'.refused = app.refused) =>
          /\ app'.socket = 0
          /\ app'.currentUser = Null
          /\ app.socket # 0 => StaysClosed(app.socket)]_vars

\* After a logout whose request succeeded the session is torn down.
SuccessfulLogoutTearsDown ==
  [][(app.currentUser # Null /\ app.token.present /\ ~app'.token.present
      /\ app'.refused = app.refused
      /\ persisted' # persisted) =>
        /\ app'.socket = 0
        /\ app'.currentUser = Null
        /\ app.socket # 0 => StaysClosed(app.socket)]_vars

----------------------------------------------------------------------------
\* C28: the text entries of the list that a client shows for its open
\* conversation are messages between the client's user and the selected
\* partner only; a 'message:receive' from a third user adds no entry.
OnlyTheOpenConversation ==
  \A c \in Conns : (Alive(c) /\ shown[c].chat # Null) =>
    \A i \in 1..Len(shown[c].list) :
      {shown[c].list[i].sender, shown[c].list[i].recipient}
        = {CurrentUser(c), shown[c].chat}

----------------------------------------------------------------------------
\* Nothing is pending for client c: no request is in flight, every emitted
\* event was relayed, every received event was handled, no fetch is open.
Settled(c) ==
  /\ posts = {}
  /\ \A d \in Conns : outq[d] = <<>>
  /\ shown[c].seen = Len(inbox[c])
  /\ shown[c].fetch = NoFetch

\* The stored messages that were relayed to client c while it has the
\* conversation with their sender open.
RelayedAndStored(c) ==
  {i \in 1..Len(messages) :
     /\ messages[i].recipient = CurrentUser(c)
     /\ messages[i].sender = shown[c].chat
     /\ \E k \in 1..Len(inbox[c]) :
          inbox[c][k].ev = "message:receive" /\ inbox[c][k].seq = messages[i].seq}

\* How many entries of the list show message number n.
Entries(list, n) == Cardinality({i \in 1..Len(list) : list[i].seq = n})

\* C29: when a message was sent to a connected recipient and stored, then
\* once all pending events, requests and fetches are done, the recipient's
\* list of the conversation with the sender holds the message exactly
\* once, however the 'message:receive' event and the history fetches were
\* interleaved.
ShownExactlyOnce ==
  \A c \in sockets : Settled(c) =>
    \A i \in RelayedAndStored(c) : Entries(shown[c].list, messages[i].seq) = 1

\* The same bound from each side.
ShownAtMostOnce ==
  \A c \in sockets : Settled(c) =>
    \A i \in RelayedAndStored(c) : Entries(shown[c].list, messages[i].seq) <= 1
ShownAtLeastOnce ==
  \A c \in sockets : Settled(c) =>
    \A i \in RelayedAndStored(c) : Entries(shown[c].list, messages[i].seq) >= 1

----------------------------------------------------------------------------
\* The guarded request answered in this step.
Guardeds == {a \in http' \ http : a.route = "guarded"}

\* C30: a request reaches the handler behind the guard, with req.user set
\* to the stored user, exactly when it carries 'Bearer <token>', the token
\* verifies under the guard's secret and the user it names is stored (and
\* the lookup answered); every other request is answered with 401, next()
\* is not called and req.user is not set.
GuardAdmitsIffValid ==
  [][\A a \in Guardeds :
       IF /\ a.header.scheme = "Bearer" /\ a.header.token.present
          /\ a.header.token.key = ProtectSecret /\ ~a.header.token.expired
          /\ a.header.token.sub \in users
          /\ a.lookup
         THEN a.next /\ a.user = a.header.token.sub /\ a.status = 0
         ELSE ~a.next /\ a.user = Undefined /\ a.status = 401]_vars

\* One request with a good token was passed on, and one whose token was
\* signed with another secret was answered with 401.
C30Witness ==
  /\ \E a \in http : a.route = "guarded" /\ a.next /\ a.user = "u1"
  /\ \E a \in http : /\ a.route = "guarded" /\ a.status = 401
                     /\ a.header = Bearer(Token("u1", "your_jwt_secret_key", FALSE))

====
